---- MODULE Spec2Model ----
(***************************************************************************)
(* Model of the analysis page of the skin-lesion frontend                  *)
(* (src/app_pages/analysis.py) together with the validators, the ID        *)
(* generators and the REST clients it calls.                               *)
(*                                                                         *)
(* One action of the model is one user interaction: the script run that    *)
(* handles it, the backend calls of the handler, and the page render that  *)
(* follows it (the rest of the same run, or the fresh run started by       *)
(* st.rerun()).  The backend is the environment: every request either      *)
(* succeeds, is answered with an HTTP error, or fails at connection level. *)
(***************************************************************************)
EXTENDS Integers, Sequences, FiniteSets, TLC

----------------------------------------------------------------------------
(* Bounds of the model *)

\* the session is followed up to its MaxAttempts-th call of perform_analysis
MaxAttempts == 2

----------------------------------------------------------------------------
(* Values *)

\* Python None for a dict-valued entry of st.session_state
None == [none |-> TRUE]
\* Python None / empty string for an identifier
NoId == << >>
\* an attribute that was never stored in st.session_state
Absent == [absent |-> TRUE]
\* st.file_uploader returns None when nothing is uploaded
NoFile == [name |-> ""]

\* a date string: text = "dmy" stands for the digits d/m/y written in the
\* DD/MM/YYYY layout, text = "d/m/y" for the same digits written without
\* leading zeros in the day and the month, any other text is that literal string
DateString(text, d, m, y) == [text |-> text, d |-> d, m |-> m, y |-> y]

\* date on which the session runs (datetime.now()), and its first second
SessionDate == [d |-> 2, m |-> 11, y |-> 2026]

\* str.lower() / str.title() on the strings that occur in the model
Lower(s) ==
    CASE s = "Male" -> "male"
      [] s = "Female" -> "female"
      [] OTHER -> s

Title(s) ==
    CASE s = "male" -> "Male"
      [] s = "female" -> "Female"
      [] s = "left leg" -> "Left Leg"
      [] s = "right leg" -> "Right Leg"
      [] s = "left arm" -> "Left Arm"
      [] s = "right arm" -> "Right Arm"
      [] s = "torso front" -> "Torso Front"
      [] s = "torso back" -> "Torso Back"
      [] s = "head & neck" -> "Head & Neck"
      [] OTHER -> s

\* str.strip() on a string given as a sequence of characters
RECURSIVE LStrip(_)
LStrip(s) == IF s # << >> /\ Head(s) = " " THEN LStrip(Tail(s)) ELSE s

RECURSIVE RStrip(_)
RStrip(s) ==
    IF s # << >> /\ s[Len(s)] = " " THEN RStrip(SubSeq(s, 1, Len(s) - 1)) ELSE s

Strip(s) == RStrip(LStrip(s))

----------------------------------------------------------------------------
(* Configuration, src/config.py *)

AGE_MIN == 0
AGE_MAX == 120
DIAMETER_MIN == 0
DIAMETER_MAX == 200
SEX_OPTIONS == {"Male", "Female"}

LocationDisplayNames ==
    {"Head and Neck", "Torso Front", "Torso Back", "Left Leg",
     "Right Leg", "Left Arm", "Right Arm"}

ANATOMICAL_LOCATIONS ==
    [ display \in LocationDisplayNames |->
        CASE display = "Head and Neck" -> [api_value |-> "head & neck", code |-> "HN"]
          [] display = "Torso Front"   -> [api_value |-> "torso front", code |-> "FT"]
          [] display = "Torso Back"    -> [api_value |-> "torso back",  code |-> "BT"]
          [] display = "Left Leg"      -> [api_value |-> "left leg",    code |-> "LL"]
          [] display = "Right Leg"     -> [api_value |-> "right leg",   code |-> "RL"]
          [] display = "Left Arm"      -> [api_value |-> "left arm",    code |-> "LA"]
          [] display = "Right Arm"     -> [api_value |-> "right arm",   code |-> "RA"] ]

VALID_ANATOMICAL_LOCATIONS ==
    { ANATOMICAL_LOCATIONS[d].api_value : d \in LocationDisplayNames }

\* the code of a location; "" stands for the ValueError of an unknown one
get_location_code(api_location) ==
    IF \E d \in LocationDisplayNames : ANATOMICAL_LOCATIONS[d].api_value = api_location
    THEN ANATOMICAL_LOCATIONS[CHOOSE d \in LocationDisplayNames :
                ANATOMICAL_LOCATIONS[d].api_value = api_location].code
    ELSE ""

----------------------------------------------------------------------------
(* Dates: datetime.strptime and timedelta.days *)

IsLeap(y) == (y % 4 = 0 /\ y % 100 # 0) \/ y % 400 = 0

DaysInMonth(y, m) ==
    CASE m \in {1, 3, 5, 7, 8, 10, 12} -> 31
      [] m \in {4, 6, 9, 11} -> 30
      [] OTHER -> IF IsLeap(y) THEN 29 ELSE 28

\* datetime.strptime(date_string, "%d/%m/%Y") succeeds
Parses(ds) ==
    /\ ds.text \in {"dmy", "d/m/y"}
    /\ ds.y \in 1..9999
    /\ ds.m \in 1..12
    /\ ds.d \in 1..DaysInMonth(ds.y, ds.m)

DaysBeforeYear(y) == (y - 1) * 365 + (y - 1) \div 4 - (y - 1) \div 100 + (y - 1) \div 400

RECURSIVE DaysBeforeMonth(_, _)
DaysBeforeMonth(y, m) ==
    IF m = 1 THEN 0 ELSE DaysBeforeMonth(y, m - 1) + DaysInMonth(y, m - 1)

\* date.toordinal()
Ordinal(ds) == DaysBeforeYear(ds.y) + DaysBeforeMonth(ds.y, ds.m) + ds.d

\* (datetime.now() - birth_date).days ; birth_date is a midnight
DaysSince(ds) == Ordinal(SessionDate) - Ordinal(ds)

----------------------------------------------------------------------------
(* Validators, src/utils/validators.py; each returns (is_valid, error) *)

Valid == [valid |-> TRUE, error |-> ""]
Invalid(msg) == [valid |-> FALSE, error |-> msg]

\* validate_date_of_birth without its first test, of the blank string
validate_date_of_birth_unless_blank(date_string) ==
    IF ~Parses(date_string) THEN Invalid("Invalid date format")
    ELSE IF DaysSince(date_string) < 0 THEN Invalid("Date of birth cannot be in the future")
    ELSE IF DaysSince(date_string) * 100 > AGE_MAX * 36525 THEN Invalid("Age cannot exceed")
    ELSE Valid

validate_date_of_birth(date_string) ==
    IF date_string.text \in {"", " "} THEN Invalid("Date of birth is required")
    ELSE IF ~Parses(date_string) THEN Invalid("Invalid date format")
    ELSE IF DaysSince(date_string) < 0 THEN Invalid("Date of birth cannot be in the future")
    ELSE IF DaysSince(date_string) * 100 > AGE_MAX * 36525 THEN Invalid("Age cannot exceed")
    ELSE Valid

validate_patient_name(name) ==
    IF Strip(name) = << >> THEN Invalid("Patient name is required")
    ELSE IF Len(Strip(name)) < 3 THEN Invalid("Name must be at least 3 characters long")
    ELSE Valid

validate_sex(sex) ==
    IF sex \in {"", " "} THEN Invalid("Sex is required")
    ELSE IF sex \notin SEX_OPTIONS THEN Invalid("Sex must be one of")
    ELSE Valid

validate_lesion_location(location) ==
    IF location \in {"", " "} THEN Invalid("Lesion location is required")
    ELSE IF Lower(location) \notin VALID_ANATOMICAL_LOCATIONS THEN Invalid("Invalid location")
    ELSE Valid

validate_initial_lesion_size(size_mm) ==
    IF size_mm <= 0 THEN Invalid("Lesion size must be greater than 0 mm") ELSE Valid

validate_current_lesion_size(size_mm) ==
    IF size_mm < DIAMETER_MIN THEN Invalid("Lesion size for analysis must be at least")
    ELSE IF size_mm > DIAMETER_MAX THEN Invalid("Lesion size for analysis cannot exceed")
    ELSE Valid

\* the years begun rather than the years completed
calculate_age_years_begun(date_of_birth) == (DaysSince(date_of_birth) * 100) \div 36525 + 1

\* int(days / 365.25); int() truncates towards zero
calculate_age_from_dob(date_of_birth) ==
    IF DaysSince(date_of_birth) >= 0
    THEN (DaysSince(date_of_birth) * 100) \div 36525
    ELSE -((-DaysSince(date_of_birth) * 100) \div 36525)

----------------------------------------------------------------------------
(* ID generators, src/utils/id_generator.py; t is the second of the clock *)

\* "PAT-" + YYYYMMDDHHMMSS of the current second
generate_patient_id(t) == <<"PAT", t>>

\* last three digits of HHMMSS: the unit digit of the minute and the seconds
TimestampCounter(t) == ((t \div 60) % 10) * 100 + (t % 60)

generate_lesion_id(api_location, t) ==
    <<"LESION", get_location_code(api_location), TimestampCounter(t)>>

----------------------------------------------------------------------------
(* The backend, reached through requests.get / requests.post *)

\* how the backend answers one request
Outcomes == {"ok", "http_error", "conn_error"}

\* one HTTP request sent by a client
Request(kind, patient_id, lesion_id) ==
    [kind |-> kind, patient_id |-> patient_id, lesion_id |-> lesion_id]

\* the uploaded file once Image.open / st.image (the preview) or requests.post
\* (an earlier request) have read it: its read position is past the start
AlreadyRead(image_file) == [name |-> image_file.name, position |-> 1]

\* the file left where it is
seek_skipped(image_file, offset) == image_file

\* uploaded_file.seek(offset)
seek(image_file, offset) == [image_file EXCEPT !.position = offset]

\* a request that carries the file, read from its current position onwards
FileRequest(kind, patient_id, lesion_id, image_file) ==
    [kind |-> kind, patient_id |-> patient_id, lesion_id |-> lesion_id,
     position |-> image_file.position]

\* result of one client call: a value, or the message of the raised Exception
Returned(value, db, reqs) ==
    [ok |-> TRUE, value |-> value, error |-> "", db |-> db, reqs |-> reqs]
Raised(msg, db, reqs) ==
    [ok |-> FALSE, value |-> None, error |-> msg, db |-> db, reqs |-> reqs]

PatientIds(db) == { p.patient_id : p \in db.patients }
LesionIds(db) == { l.lesion_id : l \in db.lesions }

\* the except clauses shared by all client methods
ClientError(prefix, o) == IF o = "http_error" THEN prefix ELSE "Connection error"

\* POST /api/patients: identifiers are unique, a duplicate is refused
create_patient(db, patient_id, patient_full_name, sex, date_of_birth, o) ==
    LET req == Request("create_patient", patient_id, NoId)
        rec == [patient_id |-> patient_id, patient_full_name |-> patient_full_name,
                sex |-> Lower(sex), date_of_birth |-> date_of_birth]
        res == IF o = "ok" /\ patient_id \in PatientIds(db) THEN "http_error" ELSE o
    IN IF res = "ok"
       THEN Returned(rec, [db EXCEPT !.patients = @ \cup {rec}], <<req>>)
       ELSE Raised(ClientError("Failed to create patient", res), db, <<req>>)

\* POST /api/lesions
create_lesion(db, lesion_id, patient_id, lesion_location, initial_size_mm, o) ==
    LET req == Request("create_lesion", patient_id, lesion_id)
        rec == [lesion_id |-> lesion_id, patient_id |-> patient_id,
                lesion_location |-> lesion_location, initial_size_mm |-> initial_size_mm]
        res == IF o = "ok" /\ (lesion_id \in LesionIds(db) \/ patient_id \notin PatientIds(db))
               THEN "http_error" ELSE o
    IN IF res = "ok"
       THEN Returned(rec, [db EXCEPT !.lesions = @ \cup {rec}], <<req>>)
       ELSE Raised(ClientError("Failed to create lesion", res), db, <<req>>)

\* GET /api/patients/search/by-name; the term is taken to match every name
search_patients_by_name(db, search_term, o) ==
    IF Len(search_term) < 2 THEN Returned({}, db, << >>)
    ELSE IF o = "ok" THEN Returned(db.patients, db, <<Request("search", NoId, NoId)>>)
    ELSE Raised(ClientError("Search failed", o), db, <<Request("search", NoId, NoId)>>)

\* GET /api/patients/{id}/lesions
get_lesions_by_patient(db, patient_id, o) ==
    LET req == Request("list_lesions", patient_id, NoId)
    IN IF o = "ok"
       THEN Returned({ l \in db.lesions : l.patient_id = patient_id }, db, <<req>>)
       ELSE Raised(ClientError("Failed to get lesions", o), db, <<req>>)

\* PredictionService._validate_inputs: "" or the message of the ValueError
_validate_inputs(age, sex, location, diameter) ==
    IF ~(0 <= age /\ age <= 120) THEN "Age must be between 0 and 120"
    ELSE IF Lower(sex) \notin {"male", "female"} THEN "Sex must be 'male' or 'female'"
    ELSE IF Lower(location) \notin VALID_ANATOMICAL_LOCATIONS THEN "Location must be one of"
    ELSE IF diameter <= 0 THEN "Diameter must be positive"
    ELSE ""

\* POST /api/predict: inference, and the analysis is stored for the lesion
submit_prediction(db, image_file, age, sex, location, diameter, patient_id, lesion_id, o) ==
    LET req == FileRequest("predict", patient_id, lesion_id, image_file)
        rec == [patient_id |-> patient_id, lesion_id |-> lesion_id]
        response == [analysis_id |-> "server-assigned",
                     model_a_probability |-> "p_a", model_c_probability |-> "p_c"]
    IN IF _validate_inputs(age, sex, location, diameter) # ""
       THEN Raised(_validate_inputs(age, sex, location, diameter), db, << >>)
       ELSE IF patient_id = NoId THEN Raised("patient_id is required", db, << >>)
       ELSE IF lesion_id = NoId THEN Raised("lesion_id is required", db, << >>)
       ELSE IF o = "ok"
       THEN Returned(response, [db EXCEPT !.analyses = @ \cup {rec}], <<req>>)
       ELSE Raised(ClientError("API Error", o), db, <<req>>)

\* POST /api/explain: inference with feature contributions, nothing stored
get_explanation(db, image_file, age, sex, location, diameter, o) ==
    LET req == FileRequest("explain", NoId, NoId, image_file)
    IN IF _validate_inputs(age, sex, location, diameter) # ""
       THEN Raised(_validate_inputs(age, sex, location, diameter), db, << >>)
       ELSE IF o = "ok" THEN Returned([prediction |-> "shap"], db, <<req>>)
       ELSE Raised(ClientError("API Error", o), db, <<req>>)

----------------------------------------------------------------------------
(* perform_analysis, src/app_pages/analysis.py *)

\* progress of perform_analysis: ok is FALSE once an exception was raised
Progress(ok, ss, db, reqs, patient_id, lesion_id, error) ==
    [ok |-> ok, ss |-> ss, db |-> db, reqs |-> reqs,
     patient_id |-> patient_id, lesion_id |-> lesion_id, error |-> error]

\* variant: the identifier of the created patient is used, and not kept
Step1ForgetsPatientId(ss, db, t, o) ==
    IF ss.patient_is_new
    THEN LET r == create_patient(db, generate_patient_id(t), ss.patient_data.full_name,
                                 ss.patient_data.sex, ss.patient_data.date_of_birth, o)
         IN IF r.ok
            THEN Progress(TRUE, ss, r.db, r.reqs, r.value.patient_id, NoId, "")
            ELSE Progress(FALSE, ss, r.db, r.reqs, NoId, NoId, r.error)
    ELSE Progress(TRUE, ss, db, << >>, ss.patient_data.patient_id, NoId, "")

\* STEP 1: create the patient if it is flagged new
Step1CreatePatient(ss, db, t, o) ==
    IF ss.patient_is_new
    THEN LET r == create_patient(db, generate_patient_id(t), ss.patient_data.full_name,
                                 ss.patient_data.sex, ss.patient_data.date_of_birth, o)
         IN IF r.ok
            THEN Progress(TRUE, [ss EXCEPT !.patient_data.patient_id = r.value.patient_id],
                          r.db, r.reqs, r.value.patient_id, NoId, "")
            ELSE Progress(FALSE, ss, r.db, r.reqs, NoId, NoId, r.error)
    ELSE Progress(TRUE, ss, db, << >>, ss.patient_data.patient_id, NoId, "")

\* variant: the lesion is given its generated identifier, its creation is
\* left for later
Step2DeferredLesion(s1, t, o) ==
    IF s1.ss.lesion_is_new
    THEN Progress(TRUE,
            [s1.ss EXCEPT !.lesion_data.lesion_id =
                              generate_lesion_id(s1.ss.lesion_data.location, t)],
            s1.db, s1.reqs, s1.patient_id,
            generate_lesion_id(s1.ss.lesion_data.location, t), "")
    ELSE [s1 EXCEPT !.lesion_id = s1.ss.lesion_data.lesion_id]

\* STEP 2: create the lesion if it is flagged new
Step2CreateLesion(s1, t, o) ==
    IF s1.ss.lesion_is_new
    THEN IF get_location_code(s1.ss.lesion_data.location) = ""
         THEN [s1 EXCEPT !.ok = FALSE, !.error = "Unknown location"]
         ELSE LET r == create_lesion(s1.db,
                                     generate_lesion_id(s1.ss.lesion_data.location, t),
                                     s1.patient_id, s1.ss.lesion_data.location,
                                     s1.ss.lesion_data.initial_size_mm, o)
              IN IF r.ok
                 THEN Progress(TRUE, [s1.ss EXCEPT !.lesion_data.lesion_id = r.value.lesion_id],
                               r.db, s1.reqs \o r.reqs, s1.patient_id, r.value.lesion_id, "")
                 ELSE Progress(FALSE, s1.ss, r.db, s1.reqs \o r.reqs, s1.patient_id, NoId, r.error)
    ELSE [s1 EXCEPT !.lesion_id = s1.ss.lesion_data.lesion_id]

\* variant: the results are stored and flagged before the outcome is known
Step3StoreAlways(s2, uploaded_file, current_size_mm, o) ==
    LET r == submit_prediction(s2.db, seek(AlreadyRead(uploaded_file), 0),
                               calculate_age_from_dob(s2.ss.patient_data.date_of_birth),
                               s2.ss.patient_data.sex, s2.ss.lesion_data.location,
                               current_size_mm, s2.patient_id, s2.lesion_id, o)
    IN Progress(r.ok,
                [s2.ss EXCEPT !.last_response = r.value, !.analysis_complete = TRUE],
                r.db, s2.reqs \o r.reqs, s2.patient_id, s2.lesion_id, r.error)

\* STEP 3: the prediction, and the results stored when it succeeds
Step3Predict(s2, uploaded_file, current_size_mm, o) ==
    LET pd == s2.ss.patient_data
        ld == s2.ss.lesion_data
        age == calculate_age_from_dob(pd.date_of_birth)
        r == submit_prediction(s2.db, seek(AlreadyRead(uploaded_file), 0), age, pd.sex,
                               ld.location, current_size_mm, s2.patient_id, s2.lesion_id, o)
    IN IF r.ok
       THEN Progress(TRUE,
                [s2.ss EXCEPT
                    !.last_response = r.value,
                    !.last_uploaded_file = uploaded_file,
                    !.last_input = [age |-> age, sex |-> pd.sex,
                                    location |-> ld.location, diameter |-> current_size_mm],
                    !.last_display_metadata = [age |-> age, sex |-> Title(pd.sex),
                                    location |-> ld.location_display,
                                    diameter |-> current_size_mm],
                    !.analysis_complete = TRUE,
                    !.show_shap = FALSE,
                    !.patient_is_new = FALSE,
                    !.lesion_is_new = FALSE],
                r.db, s2.reqs \o r.reqs, s2.patient_id, s2.lesion_id, "")
       ELSE Progress(FALSE, s2.ss, r.db, s2.reqs \o r.reqs, s2.patient_id, s2.lesion_id, r.error)

\* variant: every step has its own try block, a failed step does not stop
\* the steps after it
perform_analysis_each_step(ss, db, t, uploaded_file, current_size_mm, o1, o2, o3) ==
    LET s1 == Step1CreatePatient(ss, db, t, o1)
        s2 == Step2CreateLesion([s1 EXCEPT !.ok = TRUE], t, o2)
        s3 == Step3Predict([s2 EXCEPT !.ok = TRUE], uploaded_file, current_size_mm, o3)
    IN [s3 EXCEPT !.ok = s1.ok /\ s2.ok /\ s3.ok]

\* the try block: an exception raised by a step skips the steps after it
perform_analysis(ss, db, t, uploaded_file, current_size_mm, o1, o2, o3) ==
    LET s1 == Step1CreatePatient(ss, db, t, o1)
        s2 == IF s1.ok THEN Step2CreateLesion(s1, t, o2) ELSE s1
        s3 == IF s2.ok THEN Step3Predict(s2, uploaded_file, current_size_mm, o3) ELSE s2
    IN s3

----------------------------------------------------------------------------
(* What the page renders, src/app_pages/analysis.py *)

PatientChosen(ss) == ss.patient_data_ready /\ ss.patient_data # None
LesionChosen(ss) == ss.lesion_data_ready /\ ss.lesion_data # None

\* render_patient_section
SearchPatientRendered(ss, w) ==
    ~PatientChosen(ss) /\ w.patient_mode = "Search Existing Patient"
NewPatientFormRendered(ss, w) ==
    ~PatientChosen(ss) /\ w.patient_mode = "New Patient"

\* variant: the mode radio is offered for every patient
ForcedNewLesionNever(ss) == FALSE

\* render_lesion_section: a new patient forces the mode "New Lesion", the
\* radio is offered for an existing patient only
ForcedNewLesion(ss) == ss.patient_is_new
LesionModeRendered(ss) ==
    ss.patient_data_ready /\ ~LesionChosen(ss) /\ ~ForcedNewLesion(ss)
LesionMode(ss, w) == IF ForcedNewLesion(ss) THEN "New Lesion" ELSE w.lesion_mode
NewLesionFormRendered(ss, w) ==
    ss.patient_data_ready /\ ~LesionChosen(ss) /\ LesionMode(ss, w) = "New Lesion"
SearchLesionRendered(ss, w) ==
    ss.patient_data_ready /\ ~LesionChosen(ss) /\ LesionMode(ss, w) = "Search Existing Lesion"

\* a widget that is not rendered in a run loses its value
LiveWidgets(ss, w) ==
    [patient_mode |-> IF PatientChosen(ss) THEN "New Patient" ELSE w.patient_mode,
     search_term |-> IF SearchPatientRendered(ss, w) THEN w.search_term ELSE << >>,
     lesion_mode |-> IF LesionModeRendered(ss) THEN w.lesion_mode ELSE "New Lesion",
     uploaded_file |-> IF ss.lesion_data_ready THEN w.uploaded_file ELSE NoFile]

NoCall(db) == Returned({}, db, << >>)

\* render_search_patient: the search runs on every render of the section
RenderSearchPatient(ss, w, db, o) ==
    IF SearchPatientRendered(ss, w) /\ Len(w.search_term) >= 2
    THEN search_patients_by_name(db, w.search_term, o)
    ELSE NoCall(db)

\* variant: the section lists the lesions of every patient
RenderSearchLesionOfAnyPatient(ss, w, db, o) ==
    IF SearchLesionRendered(ss, w) /\ ss.patient_data # None
    THEN IF o = "ok"
         THEN Returned(db.lesions, db,
                       <<Request("list_lesions", ss.patient_data.patient_id, NoId)>>)
         ELSE get_lesions_by_patient(db, ss.patient_data.patient_id, o)
    ELSE NoCall(db)

\* render_search_lesion: the listing runs on every render of the section
RenderSearchLesion(ss, w, db, o) ==
    IF SearchLesionRendered(ss, w) /\ ss.patient_data # None
    THEN get_lesions_by_patient(db, ss.patient_data.patient_id, o)
    ELSE NoCall(db)

\* render_results_section: the explanation is requested on every render
\* while show_shap is set
RenderExplanation(ss, db, o) ==
    IF ss.analysis_complete /\ ss.show_shap
    THEN IF ss.last_uploaded_file = Absent \/ ss.last_input = Absent
         THEN Raised("AttributeError", db, << >>)
         ELSE get_explanation(db, seek(AlreadyRead(ss.last_uploaded_file), 0),
                              ss.last_input.age, ss.last_input.sex, ss.last_input.location,
                              ss.last_input.diameter, o)
    ELSE NoCall(db)

\* lookups of the sections rendered above the results section
Lookups(ss, w, db, lo) ==
    RenderSearchPatient(ss, w, db, lo).reqs \o RenderSearchLesion(ss, w, db, lo).reqs

Surfaced(prefix, r) == IF r.ok THEN << >> ELSE << <<prefix, r.error>> >>

\* one complete run of render(): the lookups it sends and what it shows
Render(ss, w, db, lo, eo) ==
    LET lw == LiveWidgets(ss, w)
        sp == RenderSearchPatient(ss, lw, db, lo)
        sl == RenderSearchLesion(ss, lw, db, lo)
        ex == RenderExplanation(ss, db, eo)
    IN [widgets |-> lw,
        shown |-> [patients |-> IF sp.ok THEN sp.value ELSE {},
                   lesions |-> IF sl.ok THEN sl.value ELSE {}],
        reqs |-> sp.reqs \o sl.reqs \o ex.reqs,
        msgs |-> Surfaced("Search failed", sp) \o Surfaced("Failed to load lesions", sl)
                 \o Surfaced("Failed to generate explanation", ex)]

----------------------------------------------------------------------------
(* Inputs of the user *)

NameInputs == { <<" ", "A", "l", " ">>, <<"J", "o", "e">> }

DobInputs ==
    { DateString("", 0, 0, 0), DateString("dmy", 31, 2, 2000),
      DateString("dmy", 1, 1, 1980) }

SearchTerms == { << >>, <<"J">>, <<"J", "o">> }

\* locations offered by the new-lesion form in the model
FormLocations == {"Left Leg"}

\* st.number_input of the new-lesion form: 0.1 .. 500.0
InitialSizes == {5}

\* values of the current-size field: st.number_input keeps the value within
\* DIAMETER_MIN .. DIAMETER_MAX, both ends included
CurrentSizes == {0, 5}

Files == { [name |-> "lesion.png"] }

\* st.selectbox "Sex" of the new-patient form
SexInputs == {"Female"}

\* answers to the lookups and explanations requested while rendering
RenderOutcomes == {"ok", "conn_error"}

----------------------------------------------------------------------------
(* State *)

VARIABLES
    session_state,  \* st.session_state of the analysis page
    widgets,        \* values of the input widgets of the page
    shown,          \* search results listed with a Select button
    db,             \* records persisted in the backend
    now,            \* clock, in seconds
    reqs,           \* HTTP requests sent while handling the last interaction
    messages,       \* errors surfaced while handling the last interaction
    last,           \* the last interaction and how it ended
    attempts,       \* number of calls of perform_analysis so far
    call            \* the last client method invoked on its own, and its result

vars == <<session_state, widgets, shown, db, now, reqs, messages, last, attempts, call>>

\* no client method has been invoked on its own
NoInvocation == [method |-> "-"]

\* an interaction, how it ended, and the value of the size field it was given
Did(action, outcome, input) == [action |-> action, outcome |-> outcome, input |-> input]

\* initialize_session_state; the last_* entries exist only once stored
InitialSessionState ==
    [patient_data_ready |-> FALSE, patient_is_new |-> TRUE,
     lesion_data_ready |-> FALSE, lesion_is_new |-> TRUE,
     analysis_complete |-> FALSE,
     patient_data |-> None, lesion_data |-> None,
     last_response |-> None, show_shap |-> FALSE,
     last_uploaded_file |-> Absent, last_input |-> Absent,
     last_display_metadata |-> Absent]

\* reset_all_state without the line that clears analysis_complete
reset_all_state_but_complete(ss) ==
    [ss EXCEPT !.patient_data_ready = FALSE, !.patient_is_new = TRUE,
               !.lesion_data_ready = FALSE, !.lesion_is_new = TRUE,
               !.patient_data = None, !.lesion_data = None,
               !.last_response = None, !.show_shap = FALSE]

\* reset_all_state
reset_all_state(ss) ==
    [ss EXCEPT !.patient_data_ready = FALSE, !.patient_is_new = TRUE,
               !.lesion_data_ready = FALSE, !.lesion_is_new = TRUE,
               !.analysis_complete = FALSE,
               !.patient_data = None, !.lesion_data = None,
               !.last_response = None, !.show_shap = FALSE]

DefaultWidgets ==
    [patient_mode |-> "New Patient", search_term |-> << >>,
     lesion_mode |-> "New Lesion", uploaded_file |-> NoFile]

\* records the backend holds when the session starts
InitialDb ==
    [patients |-> { [patient_id |-> <<"PAT", 0>>, patient_full_name |-> <<"A", "n", "n">>,
                     sex |-> "female", date_of_birth |-> DateString("dmy", 1, 1, 1980)] },
     lesions |-> { [lesion_id |-> <<"LESION", "LL", 0>>, patient_id |-> <<"PAT", 0>>,
                    lesion_location |-> "left leg", initial_size_mm |-> 5] },
     analyses |-> { [patient_id |-> <<"PAT", 0>>, lesion_id |-> <<"LESION", "LL", 0>>] }]

\* the page of a fresh session, before any interaction
PageInit ==
    /\ session_state = InitialSessionState
    /\ widgets = DefaultWidgets
    /\ shown = [patients |-> {}, lesions |-> {}]
    /\ db = InitialDb
    /\ now = 1
    /\ reqs = << >>
    /\ messages = << >>
    /\ last = Did("Init", "-", << >>)
    /\ attempts = 0

Init ==
    /\ PageInit
    /\ call = NoInvocation

\* the backend answers only the requests that are sent
AnswersTo(requests, answers) == IF requests = << >> THEN {"ok"} ELSE answers

\* end of an interaction: the handler left ss2 / w2 / db2, and the page is
\* rendered from them (rest of the run, or the run started by st.rerun())
Done(interaction, ss2, w2, db2, hreqs, hmsgs) ==
    \E lo \in AnswersTo(Lookups(ss2, LiveWidgets(ss2, w2), db2, "ok"), RenderOutcomes),
       eo \in AnswersTo(RenderExplanation(ss2, db2, "ok").reqs, RenderOutcomes) :
        LET r == Render(ss2, w2, db2, lo, eo)
        IN /\ attempts < MaxAttempts
           /\ session_state' = ss2
           /\ widgets' = r.widgets
           /\ shown' = r.shown
           /\ db' = db2
           /\ reqs' = hreqs \o r.reqs
           /\ messages' = hmsgs \o r.msgs
           /\ last' = interaction
           /\ attempts' = attempts + (IF interaction.outcome \in {"analysed", "failed_analysis"}
                                      THEN 1 ELSE 0)
           /\ UNCHANGED <<now, call>>

----------------------------------------------------------------------------
(* Section 1: patient *)

\* st.radio "patient_mode"
SetPatientMode(m) ==
    /\ ~PatientChosen(session_state)
    /\ m # widgets.patient_mode
    /\ Done(Did("SetPatientMode", "-", << >>), session_state, [widgets EXCEPT !.patient_mode = m],
            db, << >>, << >>)

\* st.text_input "Search by name"
TypeSearch(term) ==
    /\ SearchPatientRendered(session_state, widgets)
    /\ term # widgets.search_term
    /\ Done(Did("TypeSearch", "-", << >>), session_state, [widgets EXCEPT !.search_term = term],
            db, << >>, << >>)

\* variant: the patient is saved as soon as the form is accepted
SubmitNewPatientEager(full_name, date_of_birth, sex) ==
    /\ NewPatientFormRendered(session_state, widgets)
    /\ validate_patient_name(full_name).valid
    /\ validate_date_of_birth(date_of_birth).valid
    /\ validate_sex(sex).valid
    /\ LET r == create_patient(db, generate_patient_id(now), full_name, sex,
                               date_of_birth, "ok")
       IN Done(Did("SubmitNewPatient", "ok", << >>),
               [session_state EXCEPT
                   !.patient_data = [full_name |-> full_name,
                                     date_of_birth |-> date_of_birth,
                                     sex |-> sex, patient_id |-> generate_patient_id(now)],
                   !.patient_data_ready = TRUE,
                   !.patient_is_new = TRUE],
               widgets, r.db, r.reqs, << >>)

\* render_new_patient_form, "Continue with Patient Data"
SubmitNewPatient(full_name, date_of_birth, sex) ==
    /\ NewPatientFormRendered(session_state, widgets)
    /\ LET checks == << validate_patient_name(full_name),
                        validate_date_of_birth(date_of_birth), validate_sex(sex) >>
           errors == SelectSeq(checks, LAMBDA c : ~c.valid)
       IN IF errors # << >>
          THEN Done(Did("SubmitNewPatient", "rejected", << >>), session_state, widgets, db, << >>,
                    [i \in 1..Len(errors) |-> <<"Validation", errors[i].error>>])
          ELSE Done(Did("SubmitNewPatient", "ok", << >>),
                    [session_state EXCEPT
                        !.patient_data = [full_name |-> full_name,
                                          date_of_birth |-> date_of_birth,
                                          sex |-> sex, patient_id |-> NoId],
                        !.patient_data_ready = TRUE,
                        !.patient_is_new = TRUE],
                    widgets, db, << >>, << >>)

\* render_search_patient, "Select": the run that handles the click searches
\* again, and the button exists in it only if the patient is listed again
SelectPatient(patient) ==
    /\ SearchPatientRendered(session_state, widgets)
    /\ patient \in shown.patients
    /\ \E lo1 \in RenderOutcomes :
        LET r1 == RenderSearchPatient(session_state, widgets, db, lo1)
        IN IF r1.ok /\ patient \in r1.value
           THEN Done(Did("SelectPatient", "ok", << >>),
                     [session_state EXCEPT
                         !.patient_data = [full_name |-> patient.patient_full_name,
                                           date_of_birth |-> patient.date_of_birth,
                                           sex |-> patient.sex,
                                           patient_id |-> patient.patient_id],
                         !.patient_data_ready = TRUE,
                         !.patient_is_new = FALSE],
                     widgets, db, r1.reqs, << >>)
           ELSE /\ attempts < MaxAttempts
                /\ session_state' = session_state
                /\ widgets' = widgets
                /\ shown' = [patients |-> {}, lesions |-> {}]
                /\ db' = db
                /\ \E eo \in AnswersTo(RenderExplanation(session_state, db, "ok").reqs,
                                       RenderOutcomes) :
                     /\ reqs' = r1.reqs \o RenderExplanation(session_state, db, eo).reqs
                     /\ messages' = Surfaced("Search failed", r1)
                            \o Surfaced("Failed to generate explanation",
                                        RenderExplanation(session_state, db, eo))
                /\ last' = Did("SelectPatient", "failed", << >>)
                /\ UNCHANGED <<now, attempts, call>>

\* variant: the lesion is kept when the patient is changed
ChangePatientKeepLesion ==
    /\ PatientChosen(session_state)
    /\ Done(Did("ChangePatient", "-", << >>),
            [session_state EXCEPT !.patient_data_ready = FALSE, !.patient_data = None],
            widgets, db, << >>, << >>)

\* display_selected_patient, "Change Patient"
ChangePatient ==
    /\ PatientChosen(session_state)
    /\ Done(Did("ChangePatient", "-", << >>),
            [session_state EXCEPT !.patient_data_ready = FALSE, !.patient_data = None,
                                  !.lesion_data_ready = FALSE, !.lesion_data = None],
            widgets, db, << >>, << >>)

----------------------------------------------------------------------------
(* Section 2: lesion *)

\* st.radio "lesion_mode"
SetLesionMode(m) ==
    /\ LesionModeRendered(session_state)
    /\ m # widgets.lesion_mode
    /\ Done(Did("SetLesionMode", "-", << >>), session_state, [widgets EXCEPT !.lesion_mode = m],
            db, << >>, << >>)

\* render_new_lesion_form, "Continue with Lesion Data"
SubmitNewLesion(location_display, initial_size) ==
    /\ NewLesionFormRendered(session_state, widgets)
    /\ LET api_location == ANATOMICAL_LOCATIONS[location_display].api_value
           checks == << validate_lesion_location(api_location),
                        validate_initial_lesion_size(initial_size) >>
           errors == SelectSeq(checks, LAMBDA c : ~c.valid)
       IN IF errors # << >>
          THEN Done(Did("SubmitNewLesion", "rejected", << >>), session_state, widgets, db, << >>,
                    [i \in 1..Len(errors) |-> <<"Validation", errors[i].error>>])
          ELSE Done(Did("SubmitNewLesion", "ok", << >>),
                    [session_state EXCEPT
                        !.lesion_data = [location |-> api_location,
                                         location_display |-> location_display,
                                         initial_size_mm |-> initial_size,
                                         lesion_id |-> NoId],
                        !.lesion_data_ready = TRUE,
                        !.lesion_is_new = TRUE],
                    widgets, db, << >>, << >>)

\* render_search_lesion, "Select": as for the patient, the run that handles
\* the click lists the lesions again
SelectLesion(lesion) ==
    /\ SearchLesionRendered(session_state, widgets)
    /\ lesion \in shown.lesions
    /\ \E lo1 \in RenderOutcomes :
        LET r1 == RenderSearchLesion(session_state, widgets, db, lo1)
        IN IF r1.ok /\ lesion \in r1.value
           THEN Done(Did("SelectLesion", "ok", << >>),
                     [session_state EXCEPT
                         !.lesion_data = [location |-> lesion.lesion_location,
                                          location_display |-> Title(lesion.lesion_location),
                                          initial_size_mm |-> lesion.initial_size_mm,
                                          lesion_id |-> lesion.lesion_id],
                         !.lesion_data_ready = TRUE,
                         !.lesion_is_new = FALSE],
                     widgets, db, r1.reqs, << >>)
           ELSE /\ attempts < MaxAttempts
                /\ session_state' = session_state
                /\ widgets' = widgets
                /\ shown' = [patients |-> {}, lesions |-> {}]
                /\ db' = db
                /\ \E eo \in AnswersTo(RenderExplanation(session_state, db, "ok").reqs,
                                       RenderOutcomes) :
                     /\ reqs' = r1.reqs \o RenderExplanation(session_state, db, eo).reqs
                     /\ messages' = Surfaced("Failed to load lesions", r1)
                            \o Surfaced("Failed to generate explanation",
                                        RenderExplanation(session_state, db, eo))
                /\ last' = Did("SelectLesion", "failed", << >>)
                /\ UNCHANGED <<now, attempts, call>>

\* display_selected_lesion, "Change Lesion"
ChangeLesion ==
    /\ session_state.patient_data_ready
    /\ LesionChosen(session_state)
    /\ Done(Did("ChangeLesion", "-", << >>),
            [session_state EXCEPT !.lesion_data_ready = FALSE, !.lesion_data = None],
            widgets, db, << >>, << >>)

----------------------------------------------------------------------------
(* Section 3: analysis *)

\* render_analysis_section reads both dicts whenever lesion_data_ready is set
AnalysisSectionRendered(ss) ==
    ss.lesion_data_ready /\ ss.lesion_data # None /\ ss.patient_data # None

\* st.file_uploader: a file is uploaded, replaced or removed
UploadFile(file) ==
    /\ AnalysisSectionRendered(session_state)
    /\ file # widgets.uploaded_file
    /\ Done(Did("UploadFile", "-", << >>), session_state, [widgets EXCEPT !.uploaded_file = file],
            db, << >>, << >>)

\* the requests of perform_analysis that the backend gets to answer
PatientAnswers(ss) == IF ss.patient_is_new THEN Outcomes ELSE {"ok"}
LesionAnswers(ss, t, o1) ==
    IF Step1CreatePatient(ss, db, t, o1).ok /\ ss.lesion_is_new THEN Outcomes ELSE {"ok"}
PredictAnswers(ss, t, file, size, o1, o2) ==
    IF \E i \in DOMAIN perform_analysis(ss, db, t, file, size, o1, o2, "ok").reqs :
            perform_analysis(ss, db, t, file, size, o1, o2, "ok").reqs[i].kind = "predict"
    THEN Outcomes ELSE {"ok"}

\* variant: the handler does not look at the uploaded image
AnalyzeWithoutImageCheck(current_size) ==
    /\ AnalysisSectionRendered(session_state)
    /\ IF ~validate_current_lesion_size(current_size).valid
       THEN Done(Did("Analyze", "size_rejected", <<current_size>>), session_state, widgets,
                 db, << >>,
                 << <<"Validation", validate_current_lesion_size(current_size).error>> >>)
       ELSE \E o1 \in PatientAnswers(session_state) :
            \E o2 \in LesionAnswers(session_state, now, o1) :
            \E o3 \in PredictAnswers(session_state, now, widgets.uploaded_file,
                                     current_size, o1, o2) :
               LET r == perform_analysis(session_state, db, now, widgets.uploaded_file,
                                         current_size, o1, o2, o3)
               IN IF r.ok
                  THEN Done(Did("Analyze", "analysed", <<current_size>>), r.ss, widgets,
                            r.db, r.reqs, << >>)
                  ELSE Done(Did("Analyze", "failed_analysis", <<current_size>>), r.ss,
                            widgets, r.db, r.reqs, << <<"Analysis failed", r.error>> >>)

\* "Analyze Lesion": the checks of render_analysis_section, then perform_analysis
Analyze(current_size) ==
    /\ AnalysisSectionRendered(session_state)
    /\ IF widgets.uploaded_file = NoFile
       THEN Done(Did("Analyze", "no_image", <<current_size>>), session_state, widgets, db, << >>,
                 << <<"Validation", "no_image">> >>)
       ELSE IF ~validate_current_lesion_size(current_size).valid
       THEN Done(Did("Analyze", "size_rejected", <<current_size>>), session_state, widgets,
                 db, << >>,
                 << <<"Validation", validate_current_lesion_size(current_size).error>> >>)
       ELSE \E o1 \in PatientAnswers(session_state) :
            \E o2 \in LesionAnswers(session_state, now, o1) :
            \E o3 \in PredictAnswers(session_state, now, widgets.uploaded_file,
                                     current_size, o1, o2) :
               LET r == perform_analysis(session_state, db, now, widgets.uploaded_file,
                                         current_size, o1, o2, o3)
               IN IF r.ok
                  THEN Done(Did("Analyze", "analysed", <<current_size>>), r.ss, widgets,
                            r.db, r.reqs, << >>)
                  ELSE Done(Did("Analyze", "failed_analysis", <<current_size>>), r.ss,
                            widgets, r.db, r.reqs,
                            << <<"Analysis failed", r.error>> >>)

----------------------------------------------------------------------------
(* Section 4: results *)

\* variant: hiding the explanation also drops the stored result
ToggleShapForgetting ==
    /\ session_state.analysis_complete
    /\ \E lo1 \in AnswersTo(Lookups(session_state, widgets, db, "ok"), RenderOutcomes) :
        Done(Did("ToggleShap", "-", << >>),
             [session_state EXCEPT !.show_shap = ~session_state.show_shap,
                                   !.last_response = None],
             widgets, db, Lookups(session_state, widgets, db, lo1), << >>)

\* "View Feature Contribution" / "Hide Feature Contribution": the sections
\* above the button are rendered before the click is handled
ToggleShap ==
    /\ session_state.analysis_complete
    /\ \E lo1 \in AnswersTo(Lookups(session_state, widgets, db, "ok"), RenderOutcomes) :
        Done(Did("ToggleShap", "-", << >>),
             [session_state EXCEPT !.show_shap = ~session_state.show_shap],
             widgets, db, Lookups(session_state, widgets, db, lo1), << >>)

\* "New Analysis": the button is below the results, the whole page is
\* rendered once before the reset
NewAnalysis ==
    /\ session_state.analysis_complete
    /\ \E lo1 \in AnswersTo(Lookups(session_state, widgets, db, "ok"), RenderOutcomes),
          eo1 \in AnswersTo(RenderExplanation(session_state, db, "ok").reqs, RenderOutcomes) :
        Done(Did("NewAnalysis", "-", << >>), reset_all_state(session_state), widgets, db,
             Render(session_state, widgets, db, lo1, eo1).reqs, << >>)

----------------------------------------------------------------------------
(* Time *)

\* the clock is read by perform_analysis only (generate_patient_id,
\* generate_lesion_id): a second passes, or not, between an attempt and
\* the interaction that follows it
Tick ==
    /\ last.action = "Analyze"
    /\ last.outcome \in {"analysed", "failed_analysis"}
    /\ attempts < MaxAttempts
    /\ now' = now + 1
    /\ reqs' = << >>
    /\ messages' = << >>
    /\ last' = Did("Tick", "-", << >>)
    /\ UNCHANGED <<session_state, widgets, shown, db, attempts, call>>

----------------------------------------------------------------------------

Next ==
    \/ \E m \in {"New Patient", "Search Existing Patient"} : SetPatientMode(m)
    \/ \E term \in SearchTerms : TypeSearch(term)
    \/ \E n \in NameInputs, d \in DobInputs, s \in SexInputs : SubmitNewPatient(n, d, s)
    \/ \E p \in shown.patients : SelectPatient(p)
    \/ ChangePatient
    \/ \E m \in {"New Lesion", "Search Existing Lesion"} : SetLesionMode(m)
    \/ \E l \in FormLocations, z \in InitialSizes : SubmitNewLesion(l, z)
    \/ \E l \in shown.lesions : SelectLesion(l)
    \/ ChangeLesion
    \/ \E f \in Files \cup {NoFile} : UploadFile(f)
    \/ \E z \in CurrentSizes : Analyze(z)
    \/ ToggleShap
    \/ NewAnalysis
    \/ Tick

Spec == Init /\ [][Next]_vars


----------------------------------------------------------------------------
(* Properties *)

\* the requests of perform_analysis among those of one interaction
Sequence(rs) ==
    SelectSeq(rs, LAMBDA r : r.kind \in {"create_patient", "create_lesion", "predict"})
Kinds(rs) == [i \in DOMAIN rs |-> rs[i].kind]
Sent(rs, kind) == \E i \in DOMAIN rs : rs[i].kind = kind
Rank(kind) == IF kind = "create_patient" THEN 1 ELSE IF kind = "create_lesion" THEN 2 ELSE 3

\* a create request of this step was answered with success
Created(r) ==
    IF r.kind = "create_patient"
    THEN r.patient_id \in PatientIds(db') \ PatientIds(db)
    ELSE r.kind = "create_lesion" /\ r.lesion_id \in LesionIds(db') \ LesionIds(db)

\* C1: within one Analyze action the requests are issued in the order
\* create-patient (only if the patient is flagged new), create-lesion (only if
\* the lesion is flagged new, for the patient identifier of the previous
\* step), predict; a request is issued only after the one before it
\* succeeded, and nothing is issued after a failed step.
C1_StepsInOrder ==
    [][ last'.action = "Analyze" =>
        LET sq == Sequence(reqs')
        IN /\ \A i, j \in DOMAIN sq : i < j => Rank(sq[i].kind) < Rank(sq[j].kind)
           /\ Sent(sq, "create_patient") => session_state.patient_is_new
           /\ Sent(sq, "create_lesion") => session_state.lesion_is_new
           /\ (session_state.patient_is_new /\ sq # << >>) => sq[1].kind = "create_patient"
           /\ (session_state.lesion_is_new /\ Sent(sq, "predict")) => Sent(sq, "create_lesion")
           /\ \A i \in DOMAIN sq : sq[i].kind = "create_lesion" =>
                /\ sq[i].patient_id \in PatientIds(db')
                /\ sq[i].patient_id = IF session_state.patient_is_new
                                      THEN sq[1].patient_id
                                      ELSE session_state.patient_data.patient_id
           /\ \A i \in DOMAIN sq : i < Len(sq) => Created(sq[i])
      ]_vars

\* a new patient and a new lesion were created and the prediction was made
C1_Witness ==
    /\ last.action = "Analyze"
    /\ last.outcome = "analysed"
    /\ Kinds(Sequence(reqs)) = <<"create_patient", "create_lesion", "predict">>

\* the captured patient / lesion was created by an attempt that then failed
PatientCreatedByFailedAttempt(ss) ==
    PatientChosen(ss) /\ ss.patient_is_new /\ ss.patient_data.patient_id # NoId
LesionCreatedByFailedAttempt(ss) ==
    LesionChosen(ss) /\ ss.lesion_is_new /\ ss.lesion_data.lesion_id # NoId

\* C2: an Analyze retried on a selection whose patient (and possibly lesion)
\* was created by a failed attempt issues no second create-patient request
\* for that patient and no second create-lesion request for that lesion.
C2_RetryReusesIdentifiers ==
    [][ last'.action = "Analyze" =>
        /\ PatientCreatedByFailedAttempt(session_state) => ~Sent(reqs', "create_patient")
        /\ LesionCreatedByFailedAttempt(session_state) => ~Sent(reqs', "create_lesion")
      ]_vars

\* C3: every predict request carries a non-empty patient_id and a non-empty
\* lesion_id, and both denote records the backend holds when it is sent.
C3_PredictCarriesPersistedIds ==
    \A i \in DOMAIN reqs : reqs[i].kind = "predict" =>
        /\ reqs[i].patient_id # NoId
        /\ reqs[i].lesion_id # NoId
        /\ reqs[i].patient_id \in PatientIds(db)
        /\ reqs[i].lesion_id \in LesionIds(db)

\* a predict request was sent for a lesion created in the same attempt
C3_Witness ==
    /\ last.action = "Analyze"
    /\ \E i \in DOMAIN reqs : reqs[i].kind = "predict"
                              /\ reqs[i].lesion_id \notin LesionIds(InitialDb)

\* C4: the workflow never leaves a patient it created without a lesion, nor a
\* lesion it created without an analysis.
C4_NoOrphans ==
    /\ \A p \in db.patients \ InitialDb.patients :
            \E l \in db.lesions : l.patient_id = p.patient_id
    /\ \A l \in db.lesions \ InitialDb.lesions :
            \E a \in db.analyses : a.lesion_id = l.lesion_id

\* C5: create-patient and create-lesion requests are issued only while
\* handling an Analyze action and only for an entity flagged new; capturing,
\* selecting or changing a patient or a lesion issues none.
C5_CreateOnlyOnAnalyze ==
    [][ /\ Sent(reqs', "create_patient") =>
              last'.action = "Analyze" /\ session_state.patient_is_new
        /\ Sent(reqs', "create_lesion") =>
              last'.action = "Analyze" /\ session_state.lesion_is_new
      ]_vars

\* a lesion was captured for a captured patient, and nothing was persisted
C5_Witness ==
    /\ last.action = "SubmitNewLesion"
    /\ last.outcome = "ok"
    /\ session_state.patient_is_new
    /\ session_state.lesion_is_new
    /\ LesionChosen(session_state)
    /\ db = InitialDb

\* C6: a failed Analyze attempt does not set analysis_complete and stores no
\* result, the patient and the lesion stay chosen, an error is surfaced, and
\* what the attempt created stays in the backend: no request other than the
\* steps of the attempt and the lookups of the render is issued.
C6_FailedAttemptKeepsSelection ==
    [][ (last'.action = "Analyze" /\ last'.outcome = "failed_analysis") =>
        /\ session_state'.analysis_complete = session_state.analysis_complete
        /\ session_state'.last_response = session_state.last_response
        /\ session_state'.last_input = session_state.last_input
        /\ session_state'.last_display_metadata = session_state.last_display_metadata
        /\ PatientChosen(session_state') /\ LesionChosen(session_state')
        /\ \E i \in DOMAIN messages' : messages'[i][1] = "Analysis failed"
        /\ \A i \in DOMAIN reqs' :
              reqs'[i].kind \in {"create_patient", "create_lesion", "predict", "explain"}
        /\ db.patients \subseteq db'.patients
        /\ db.lesions \subseteq db'.lesions
        /\ db.analyses = db'.analyses
        /\ \A i \in DOMAIN Sequence(reqs') :
              i < Len(Sequence(reqs')) => Created(Sequence(reqs')[i])
      ]_vars

\* an attempt failed after it had created the patient
C6_Witness ==
    /\ last.action = "Analyze"
    /\ last.outcome = "failed_analysis"
    /\ ~session_state.analysis_complete
    /\ PatientCreatedByFailedAttempt(session_state)
    /\ session_state.patient_data.patient_id \in PatientIds(db)

\* the state whose sections sent the lesion listing of a step
ListedFrom(before, after, interaction) ==
    IF interaction.action = "NewAnalysis" THEN before ELSE after

\* C7: with patient_is_new set and a lesion chosen, lesion_is_new is set; and
\* the lesion listing is never requested for a patient flagged new.
C7_NewPatientForcesNewLesion ==
    /\ [](session_state.patient_is_new /\ LesionChosen(session_state)
            => session_state.lesion_is_new)
    /\ [][ Sent(reqs', "list_lesions") =>
            LET ss == ListedFrom(session_state, session_state', last')
            IN /\ PatientChosen(ss)
               /\ ~ss.patient_is_new
               /\ \A i \in DOMAIN reqs' : reqs'[i].kind = "list_lesions" =>
                      reqs'[i].patient_id = ss.patient_data.patient_id
         ]_vars

\* a lesion is chosen for a patient flagged new
C7_Witness ==
    /\ PatientChosen(session_state)
    /\ session_state.patient_is_new
    /\ LesionChosen(session_state)
    /\ ~Sent(reqs, "list_lesions")

\* C8: analysis_complete implies lesion_data_ready with lesion data present
\* and patient_data_ready with patient data present.
C8_ResultsOnlyWhileChosen ==
    session_state.analysis_complete =>
        LesionChosen(session_state) /\ PatientChosen(session_state)

\* C9: lesion_data_ready implies patient_data_ready and patient_data is not
\* None: the analysis section is never rendered without a patient.
C9_LesionOnlyWhilePatient ==
    session_state.lesion_data_ready =>
        session_state.patient_data_ready /\ session_state.patient_data # None

\* an existing lesion of an existing patient is chosen
C9_Witness ==
    /\ session_state.lesion_data_ready
    /\ ~session_state.lesion_is_new
    /\ ~session_state.patient_is_new
    /\ last.action = "SelectLesion"

\* the click is refused by the checks of render_analysis_section
Refused(w, interaction) ==
    \/ w.uploaded_file = NoFile
    \/ ~validate_current_lesion_size(interaction.input[1]).valid

\* C10 as stated: an Analyze click without an image, or with a size that
\* validate_current_lesion_size rejects, sends no backend request and leaves
\* the workflow state unchanged.
C10_RefusedClickSendsNothing ==
    [][ (last'.action = "Analyze" /\ Refused(widgets, last')) =>
        /\ reqs' = << >>
        /\ session_state' = session_state
        /\ db' = db
      ]_vars

\* C10: an Analyze click starts the sequence only if an image is uploaded and
\* the size passes validate_current_lesion_size; otherwise no request of the
\* sequence (create-patient, create-lesion, predict) is sent, a validation
\* error is shown and the workflow state is unchanged.
C10_RefusedClickStartsNothing ==
    [][ (last'.action = "Analyze" /\ Refused(widgets, last')) =>
        /\ Sequence(reqs') = << >>
        /\ session_state' = session_state
        /\ db' = db
        /\ attempts' = attempts
        /\ \E i \in DOMAIN messages' : messages'[i][1] = "Validation"
      ]_vars

\* a click without an image while the explanation of earlier results is shown
C10_Witness ==
    /\ last.action = "Analyze"
    /\ last.outcome = "no_image"
    /\ session_state.analysis_complete
    /\ session_state.show_shap
    /\ Sent(reqs, "explain")

\* C11: after New Analysis (reset_all_state) the workflow holds no patient,
\* no lesion, no uploaded image, no analysis result and no stored analysis
\* inputs: it equals the state of a freshly initialised session.
C11_ResetEqualsFreshSession ==
    [][ last'.action = "NewAnalysis" =>
        /\ session_state' = InitialSessionState
        /\ widgets'.uploaded_file = NoFile
      ]_vars

\* C12: View / Hide Feature Contribution changes show_shap and nothing else
\* of the workflow state; the run sends no create-patient, create-lesion or
\* predict request, an explain request is sent exactly when the explanation
\* is shown, with a patient and a lesion chosen nothing but explain requests
\* is sent, and a failed explain request leaves the results shown.
C12_ToggleChangesOnlyShowShap ==
    [][ last'.action = "ToggleShap" =>
        /\ session_state' = [session_state EXCEPT !.show_shap = ~session_state.show_shap]
        /\ session_state'.analysis_complete
        /\ db' = db
        /\ Sequence(reqs') = << >>
        /\ Sent(reqs', "explain") <=> session_state'.show_shap
        /\ (PatientChosen(session_state) /\ LesionChosen(session_state)) =>
              \A i \in DOMAIN reqs' : reqs'[i].kind = "explain"
      ]_vars

\* the explanation was asked for and the explain request failed
C12_Witness ==
    /\ last.action = "ToggleShap"
    /\ session_state.show_shap
    /\ session_state.analysis_complete
    /\ session_state.last_response # None
    /\ Sent(reqs, "explain")
    /\ \E i \in DOMAIN messages : messages[i][1] = "Failed to generate explanation"

\* messages of the ValueError raised by the prediction client's own checks
ClientValidationErrors ==
    { "Age must be between 0 and 120", "Sex must be 'male' or 'female'",
      "Location must be one of", "Diameter must be positive",
      "patient_id is required", "lesion_id is required" }

\* the interaction ended in a validation error raised on the client side
EndedInValidationError(msgs) ==
    \E i \in DOMAIN msgs :
        \/ msgs[i][1] = "Validation"
        \/ msgs[i][1] = "Analysis failed" /\ msgs[i][2] \in ClientValidationErrors

\* C13: an interaction that ends in a local validation error (of a validator
\* or of the prediction client's input check) has sent no create-patient,
\* create-lesion or predict request.
C13_ValidationErrorsStayLocal ==
    [][ EndedInValidationError(messages') => Sequence(reqs') = << >> ]_vars


----------------------------------------------------------------------------
(* The REST clients at the level of one HTTP exchange:
   src/patient_lesion_service.py, src/prediction_service.py,
   src/analysis_service.py.  Every method is applied to the exchange its one
   requests.get / requests.post would have with the network and the backend. *)

\* Python values returned by the clients
PyList(items) == [list |-> items]
PyDict(entries) == [dict |-> entries]

\* bodies of a 4xx / 5xx response: JSON with 'detail', JSON without, not JSON
ErrorBodies ==
    { [json |-> TRUE, has_detail |-> TRUE],
      [json |-> TRUE, has_detail |-> FALSE],
      [json |-> FALSE, has_detail |-> FALSE] }

\* status codes for which Response.raise_for_status() raises HTTPError
ErrorStatuses == {404, 422, 500}

\* requests.exceptions.RequestException other than HTTPError
TransportFailures == {"ConnectionError", "Timeout"}

\* what can happen to one request: no response, an error response, or a
\* 200 response with one of the payloads the endpoint produces
Exchanges(payloads) ==
    { [transport |-> t] : t \in TransportFailures }
    \cup { [transport |-> "response", status |-> s,
            json |-> b.json, has_detail |-> b.has_detail] :
           s \in ErrorStatuses, b \in ErrorBodies }
    \cup { [transport |-> "response", status |-> 200, data |-> d] : d \in payloads }

\* the method returned value after sending `sent` requests
HttpReturn(value, sent) == [ok |-> TRUE, value |-> value, sent |-> sent]

\* the method raised Exception(f"{prefix}: {text}") after sending `sent` requests
HttpRaise(prefix, text, sent) ==
    [ok |-> FALSE, error |-> [prefix |-> prefix, text |-> text], sent |-> sent]

\* requests.get / requests.post raised instead of returning a response
NoResponse(x) == x.transport # "response"

\* Response.raise_for_status() raises HTTPError
raise_for_status(x) == 400 <= x.status /\ x.status < 600

\* error_detail = response.json().get('detail', str(e)), str(e) if that fails
error_detail(x) == IF x.json /\ x.has_detail THEN "detail" ELSE "str(e)"

\* payloads of the patient and lesion endpoints
PatientPayload == [patient_id |-> <<"PAT", 0>>, patient_full_name |-> "Jo"]
LesionPayload == [lesion_id |-> <<"LESION", "LL", 0>>, patient_id |-> <<"PAT", 0>>]

\* POST /api/patients
PatientLesionService_create_patient(x) ==
    IF NoResponse(x) THEN HttpRaise("Connection error", "str(e)", 1)
    ELSE IF raise_for_status(x) THEN HttpRaise("Failed to create patient", error_detail(x), 1)
    ELSE HttpReturn(x.data, 1)

\* GET /api/patients/search/{search_term} for a term of any length
search_patients_by_name_any_term(search_term, x) ==
    IF NoResponse(x) THEN HttpRaise("Connection error", "str(e)", 1)
    ELSE IF raise_for_status(x) THEN HttpRaise("Search failed", error_detail(x), 1)
    ELSE HttpReturn(PyList(x.data), 1)

\* GET /api/patients/search/{search_term}
PatientLesionService_search_patients_by_name(search_term, x) ==
    IF Len(search_term) < 2 THEN HttpReturn(PyList(<< >>), 0)
    ELSE IF NoResponse(x) THEN HttpRaise("Connection error", "str(e)", 1)
    ELSE IF raise_for_status(x) THEN HttpRaise("Search failed", error_detail(x), 1)
    ELSE HttpReturn(PyList(x.data), 1)

\* GET /api/patients/{patient_id} without the 404 branches
get_patient_by_id_404_raises(patient_id, x) ==
    IF NoResponse(x) THEN HttpRaise("Connection error", "str(e)", 1)
    ELSE IF raise_for_status(x) THEN HttpRaise("Failed to get patient", error_detail(x), 1)
    ELSE HttpReturn(x.data, 1)

\* GET /api/patients/{patient_id}
PatientLesionService_get_patient_by_id(patient_id, x) ==
    IF NoResponse(x) THEN HttpRaise("Connection error", "str(e)", 1)
    ELSE IF x.status = 404 THEN HttpReturn(None, 1)
    ELSE IF raise_for_status(x) THEN HttpRaise("Failed to get patient", error_detail(x), 1)
    ELSE HttpReturn(x.data, 1)

\* POST /api/patients/{patient_id}/lesions
PatientLesionService_create_lesion(patient_id, x) ==
    IF NoResponse(x) THEN HttpRaise("Connection error", "str(e)", 1)
    ELSE IF raise_for_status(x) THEN HttpRaise("Failed to create lesion", error_detail(x), 1)
    ELSE HttpReturn(x.data, 1)

\* GET /api/patients/{patient_id}/lesions
PatientLesionService_get_lesions_by_patient(patient_id, x) ==
    IF NoResponse(x) THEN HttpRaise("Connection error", "str(e)", 1)
    ELSE IF raise_for_status(x) THEN HttpRaise("Failed to get lesions", error_detail(x), 1)
    ELSE HttpReturn(PyList(x.data), 1)

\* GET /api/lesions/{lesion_id}
PatientLesionService_get_lesion_by_id(lesion_id, x) ==
    IF NoResponse(x) THEN HttpRaise("Connection error", "str(e)", 1)
    ELSE IF x.status = 404 THEN HttpReturn(None, 1)
    ELSE IF raise_for_status(x) THEN HttpRaise("Failed to get lesion", error_detail(x), 1)
    ELSE HttpReturn(x.data, 1)


\* arguments of the two prediction calls in the model
PredictionArgs ==
    { [age |-> 30, sex |-> "female", location |-> "left leg", diameter |-> d,
       patient_id |-> p, lesion_id |-> <<"LESION", "LL", 0>>] :
      d \in {0, 5}, p \in {NoId, <<"PAT", 0>>} }

\* GET /health
PredictionService_check_health(x) ==
    IF NoResponse(x) THEN HttpRaise("Health check failed", "str(e)", 1)
    ELSE IF raise_for_status(x) THEN HttpRaise("Health check failed", "str(e)", 1)
    ELSE HttpReturn(x.data, 1)

\* GET /
PredictionService_get_api_info(x) ==
    IF NoResponse(x) THEN HttpRaise("Failed to get API info", "str(e)", 1)
    ELSE IF raise_for_status(x) THEN HttpRaise("Failed to get API info", "str(e)", 1)
    ELSE HttpReturn(x.data, 1)

\* POST /api/predict, sent again once when the first request failed
submit_prediction_retrying(a, x) ==
    LET invalid == _validate_inputs(a.age, a.sex, a.location, a.diameter)
    IN IF invalid # "" THEN HttpRaise("ValueError", invalid, 0)
       ELSE IF a.patient_id = NoId THEN HttpRaise("ValueError", "patient_id is required", 0)
       ELSE IF a.lesion_id = NoId THEN HttpRaise("ValueError", "lesion_id is required", 0)
       ELSE IF NoResponse(x) THEN HttpRaise("Connection error", "str(e)", 2)
       ELSE IF raise_for_status(x) THEN HttpRaise("API Error", error_detail(x), 2)
       ELSE HttpReturn(x.data, 1)

\* POST /api/predict
PredictionService_submit_prediction(a, x) ==
    LET invalid == _validate_inputs(a.age, a.sex, a.location, a.diameter)
    IN IF invalid # "" THEN HttpRaise("ValueError", invalid, 0)
       ELSE IF a.patient_id = NoId THEN HttpRaise("ValueError", "patient_id is required", 0)
       ELSE IF a.lesion_id = NoId THEN HttpRaise("ValueError", "lesion_id is required", 0)
       ELSE IF NoResponse(x) THEN HttpRaise("Connection error", "str(e)", 1)
       ELSE IF raise_for_status(x) THEN HttpRaise("API Error", error_detail(x), 1)
       ELSE HttpReturn(x.data, 1)

\* POST /api/explain
PredictionService_get_explanation(a, x) ==
    LET invalid == _validate_inputs(a.age, a.sex, a.location, a.diameter)
    IN IF invalid # "" THEN HttpRaise("ValueError", invalid, 0)
       ELSE IF NoResponse(x) THEN HttpRaise("Connection error", "str(e)", 1)
       ELSE IF raise_for_status(x) THEN HttpRaise("API Error", error_detail(x), 1)
       ELSE HttpReturn(x.data, 1)


\* longest list of analyses the backend returns in the model
MaxAnalyses == 3

\* the instant datetime.now() gives, between the capture instants 1 and 3
CaptureNow == 2

\* capture_date strings: an ISO date with a zone ('Z' or an offset), an ISO
\* date without one, or a value datetime.fromisoformat rejects (or None)
CaptureDates ==
    { [parses |-> TRUE, zone |-> z, t |-> t] : z \in BOOLEAN, t \in {1, 3} }
    \cup { [parses |-> FALSE, zone |-> FALSE, t |-> 0] }

\* the lists GET /api/lesions/{lesion_id}/analyses answers with
AnalysesPayloads ==
    UNION { { [i \in 1..n |-> [analysis_id |-> i, capture_date |-> f[i]]] :
              f \in [1..n -> CaptureDates] } : n \in 0..MaxAnalyses }

\* AnalysisCase.capture_datetime: an aware or a naive datetime; the except
\* clause gives the naive datetime.now()
capture_datetime(a) ==
    IF a.capture_date.parses
    THEN [aware |-> a.capture_date.zone, t |-> a.capture_date.t]
    ELSE [aware |-> FALSE, t |-> CaptureNow]

\* datetime.__lt__ raises TypeError between a naive and an aware datetime
CompareRaises(analyses) ==
    \E i, j \in DOMAIN analyses :
        capture_datetime(analyses[i]).aware # capture_datetime(analyses[j]).aware

\* one element put after the elements whose key is not greater than its own
RECURSIVE InsertByKey(_, _)
InsertByKey(a, sorted) ==
    IF sorted = << >> THEN <<a>>
    ELSE IF capture_datetime(a).t < capture_datetime(Head(sorted)).t
         THEN <<a>> \o sorted
         ELSE <<Head(sorted)>> \o InsertByKey(a, Tail(sorted))

\* list.sort(key=...) on comparable keys: ascending and stable
RECURSIVE SortedByKey(_)
SortedByKey(analyses) ==
    IF analyses = << >> THEN << >>
    ELSE InsertByKey(analyses[Len(analyses)],
                     SortedByKey(SubSeq(analyses, 1, Len(analyses) - 1)))

\* GET /api/lesions/{lesion_id}/analyses
AnalysisService_get_lesion_analyses(lesion_id, x) ==
    IF NoResponse(x) THEN HttpRaise("Connection error", "str(e)", 1)
    ELSE IF x.status = 404 THEN HttpReturn(PyList(<< >>), 1)
    ELSE IF raise_for_status(x)
         THEN HttpRaise("Failed to get lesion analyses", error_detail(x), 1)
    ELSE IF CompareRaises(x.data) THEN HttpRaise("TypeError", "naive and aware datetimes", 1)
    ELSE HttpReturn(PyList(SortedByKey(x.data)), 1)

\* GET /api/patients
AnalysisService_get_all_patients(x) ==
    IF NoResponse(x) THEN HttpRaise("Connection error", "str(e)", 1)
    ELSE IF raise_for_status(x) THEN HttpRaise("Failed to get patients", error_detail(x), 1)
    ELSE HttpReturn(PyList(x.data), 1)

\* GET /api/features/display-names, a connection failure raised as elsewhere
get_feature_display_names_propagating(x) ==
    IF NoResponse(x) THEN HttpRaise("Connection error", "str(e)", 1)
    ELSE IF x.status = 404 THEN HttpReturn(PyDict({}), 1)
    ELSE IF raise_for_status(x) THEN HttpRaise("Failed to get feature names", error_detail(x), 1)
    ELSE HttpReturn(PyDict(x.data), 1)

\* GET /api/features/display-names
AnalysisService_get_feature_display_names(x) ==
    IF NoResponse(x) THEN HttpReturn(PyDict({}), 1)
    ELSE IF x.status = 404 THEN HttpReturn(PyDict({}), 1)
    ELSE IF raise_for_status(x) THEN HttpRaise("Failed to get feature names", error_detail(x), 1)
    ELSE HttpReturn(PyDict(x.data), 1)

\* st.session_state.feature_display_names as the history page loads it:
\* whatever the client raises is replaced by an empty mapping
feature_display_names(x) ==
    LET r == AnalysisService_get_feature_display_names(x)
    IN IF r.ok THEN r.value ELSE PyDict({})

\* one invocation of a client method: what it was given and what came of it
Invocation(method, args, x, result) ==
    [method |-> method, args |-> args, exchange |-> x, result |-> result]

\* the page plays no part while a client method is invoked on its own
PageIdle == UNCHANGED <<session_state, widgets, shown, db, now, reqs, messages, last, attempts>>

InvokeCreatePatient ==
    \E x \in Exchanges({PatientPayload}) :
        /\ call' = Invocation("create_patient", <<"PAT", 0>>, x,
                              PatientLesionService_create_patient(x))
        /\ PageIdle

InvokeSearchPatients ==
    \E term \in SearchTerms, x \in Exchanges({<< >>, <<PatientPayload>>}) :
        /\ call' = Invocation("search_patients_by_name", term, x,
                              PatientLesionService_search_patients_by_name(term, x))
        /\ PageIdle

InvokeGetPatient ==
    \E x \in Exchanges({PatientPayload}) :
        /\ call' = Invocation("get_patient_by_id", <<"PAT", 0>>, x,
                              PatientLesionService_get_patient_by_id(<<"PAT", 0>>, x))
        /\ PageIdle

InvokeCreateLesion ==
    \E x \in Exchanges({LesionPayload}) :
        /\ call' = Invocation("create_lesion", <<"PAT", 0>>, x,
                              PatientLesionService_create_lesion(<<"PAT", 0>>, x))
        /\ PageIdle

InvokeGetLesions ==
    \E x \in Exchanges({<< >>, <<LesionPayload>>}) :
        /\ call' = Invocation("get_lesions_by_patient", <<"PAT", 0>>, x,
                              PatientLesionService_get_lesions_by_patient(<<"PAT", 0>>, x))
        /\ PageIdle

InvokeGetLesion ==
    \E x \in Exchanges({LesionPayload}) :
        /\ call' = Invocation("get_lesion_by_id", <<"LESION", "LL", 0>>, x,
                              PatientLesionService_get_lesion_by_id(<<"LESION", "LL", 0>>, x))
        /\ PageIdle

InvokeCheckHealth ==
    \E x \in Exchanges({[status |-> "healthy"]}) :
        /\ call' = Invocation("check_health", "-", x, PredictionService_check_health(x))
        /\ PageIdle

InvokeGetApiInfo ==
    \E x \in Exchanges({[name |-> "api"]}) :
        /\ call' = Invocation("get_api_info", "-", x, PredictionService_get_api_info(x))
        /\ PageIdle

InvokeSubmitPrediction ==
    \E a \in PredictionArgs, x \in Exchanges({[analysis_id |-> "server-assigned"]}) :
        /\ call' = Invocation("submit_prediction", a, x,
                              PredictionService_submit_prediction(a, x))
        /\ PageIdle

InvokeGetExplanation ==
    \E a \in PredictionArgs, x \in Exchanges({[prediction |-> "shap"]}) :
        /\ call' = Invocation("get_explanation", a, x,
                              PredictionService_get_explanation(a, x))
        /\ PageIdle

InvokeGetLesionAnalyses ==
    \E x \in Exchanges(AnalysesPayloads) :
        /\ call' = Invocation("get_lesion_analyses", <<"LESION", "LL", 0>>, x,
                              AnalysisService_get_lesion_analyses(<<"LESION", "LL", 0>>, x))
        /\ PageIdle

InvokeGetAllPatients ==
    \E x \in Exchanges({<< >>, <<PatientPayload>>}) :
        /\ call' = Invocation("get_all_patients", "-", x, AnalysisService_get_all_patients(x))
        /\ PageIdle

InvokeGetFeatureDisplayNames ==
    \E x \in Exchanges({{}, {<<"tbp_lv_areaMM2", "Lesion area">>}}) :
        /\ call' = Invocation("get_feature_display_names", "-", x,
                              AnalysisService_get_feature_display_names(x))
        /\ PageIdle

ClientNext ==
    \/ InvokeCreatePatient
    \/ InvokeSearchPatients
    \/ InvokeGetPatient
    \/ InvokeCreateLesion
    \/ InvokeGetLesions
    \/ InvokeGetLesion
    \/ InvokeCheckHealth
    \/ InvokeGetApiInfo
    \/ InvokeSubmitPrediction
    \/ InvokeGetExplanation
    \/ InvokeGetLesionAnalyses
    \/ InvokeGetAllPatients
    \/ InvokeGetFeatureDisplayNames

\* the client methods invoked one after another, in any order
ClientSpec == Init /\ [][ClientNext]_vars

\* the claims below read the last invocation
Called(method) == call.method = method
Answered(status) == call.exchange.transport = "response" /\ call.exchange.status = status
Failed == ~call.result.ok

\* C14: search_patients_by_name with a term of at least 2 characters, answered
\* 404 by the backend, returns an empty list and raises nothing.
C14_SearchTreats404AsNoResults ==
    (/\ Called("search_patients_by_name")
     /\ Len(call.args) >= 2
     /\ Answered(404))
    => (call.result.ok /\ call.result.value = PyList(<< >>))


\* the three lookups that tell "not found" from "request failed"
NotFoundLookups == {"get_patient_by_id", "get_lesion_by_id", "get_lesion_analyses"}

\* C15: answered 404, get_patient_by_id and get_lesion_by_id return None and
\* get_lesion_analyses returns an empty list, none of them raising; any other
\* error status, and any transport failure, makes each of them raise.
C15_NotFoundIsNotAFailure ==
    /\ ((Called("get_patient_by_id") \/ Called("get_lesion_by_id")) /\ Answered(404))
          => (call.result.ok /\ call.result.value = None)
    /\ (Called("get_lesion_analyses") /\ Answered(404))
          => (call.result.ok /\ call.result.value = PyList(<< >>))
    /\ (/\ call.method \in NotFoundLookups
        /\ \/ NoResponse(call.exchange)
           \/ (call.exchange.status # 404 /\ raise_for_status(call.exchange)))
          => Failed

C15_Witness ==
    /\ Called("get_patient_by_id")
    /\ Answered(404)
    /\ call.result.ok
    /\ call.result.value = None


\* C16: for every client call that sent its request (the 404 of a search or of
\* a lookup and the feature-name mapping, which the contract treats apart,
\* left aside), an error response with a 'detail' in its body gives a failure
\* whose message carries that detail, an error response without one gives a
\* failure carrying the raw error text, and a connection-level failure gives a
\* failure with the 'Connection error' message, which no error response gives.
C16_FailuresCarryTheirCause ==
    (/\ ~Called("-")
     /\ ~Called("get_feature_display_names")
     /\ call.result.sent > 0)
    => /\ NoResponse(call.exchange)
            => (Failed /\ call.result.error.prefix = "Connection error")
       /\ (/\ ~NoResponse(call.exchange)
           /\ raise_for_status(call.exchange)
           /\ ~(call.method \in NotFoundLookups \cup {"search_patients_by_name"}
                /\ call.exchange.status = 404))
            => /\ Failed
               /\ call.result.error.prefix # "Connection error"
               /\ (call.exchange.json /\ call.exchange.has_detail)
                     => call.result.error.text = "detail"
               /\ ~(call.exchange.json /\ call.exchange.has_detail)
                     => call.result.error.text = "str(e)"


\* the request of the last invocation failed: no response, or an error status
RequestFailed == NoResponse(call.exchange) \/ raise_for_status(call.exchange)

C18_AtMostOneRequestPerInvocation ==
    ~Called("-")
    => /\ call.result.sent <= 1
       /\ (Failed /\ call.result.sent > 0) => call.result.sent = 1

C18_Witness ==
    /\ Called("submit_prediction")
    /\ NoResponse(call.exchange)
    /\ Failed
    /\ call.result.error.prefix = "Connection error"
    /\ call.result.sent = 1


\* C19: search_patients_by_name called with a term shorter than 2 characters
\* returns an empty list and sends no request to the backend.
C19_ShortTermSendsNothing ==
    (Called("search_patients_by_name") /\ Len(call.args) < 2)
    => /\ call.result.ok
       /\ call.result.value = PyList(<< >>)
       /\ call.result.sent = 0

C19_Witness ==
    /\ Called("search_patients_by_name")
    /\ Len(call.args) = 1
    /\ Answered(200)
    /\ call.exchange.data # << >>
    /\ call.result = HttpReturn(PyList(<< >>), 0)


\* the analyses returned are the analyses received, each exactly once
SameAnalyses(received, returned) ==
    /\ Len(returned) = Len(received)
    /\ \A i \in DOMAIN received :
          Cardinality({ j \in DOMAIN returned : returned[j] = received[i] }) = 1

\* position in the backend's list of an analysis of that list
EncounterIndex(received, a) == CHOOSE i \in DOMAIN received : received[i] = a

\* the capture date of an analysis, where the backend gave one that parses
HasCaptureDate(a) == a.capture_date.parses

\* C20: whatever list of analyses the backend answers with, in whatever
\* order, get_lesion_analyses returns the same analyses, none lost and none
\* duplicated, sorted ascending by capture date, analyses with equal capture
\* dates in the order the backend returned them.
C20_AnalysesSortedByCaptureDate ==
    (Called("get_lesion_analyses") /\ Answered(200))
    => /\ call.result.ok
       /\ LET received == call.exchange.data
              returned == call.result.value.list
          IN /\ SameAnalyses(received, returned)
             /\ \A i, j \in DOMAIN returned :
                   (i < j /\ HasCaptureDate(returned[i]) /\ HasCaptureDate(returned[j]))
                   => /\ returned[i].capture_date.t <= returned[j].capture_date.t
                      /\ returned[i].capture_date.t = returned[j].capture_date.t
                            => EncounterIndex(received, returned[i])
                                 < EncounterIndex(received, returned[j])


----------------------------------------------------------------------------
(* The validators and the ID generators as functions of their arguments:
   src/utils/validators.py, src/utils/id_generator.py.  An input is drawn,
   and the function it is meant for is applied to it. *)

\* sizes in mm given to validate_current_lesion_size, on both sides of its limits
SizeInputs == -3 .. 203

\* an argument waiting for its function, and the function applied to it
Argument(kind, value) == [kind |-> kind, value |-> value]
Drawn(argument) == [method |-> "-", input |-> argument]
Applied(method, argument, result) ==
    [method |-> method, input |-> argument, result |-> result]

ApplyValidateCurrentLesionSize ==
    /\ Called("-")
    /\ call.input.kind = "size"
    /\ call' = Applied("validate_current_lesion_size", call.input,
                       validate_current_lesion_size(call.input.value))
    /\ PageIdle


\* date strings given to validate_date_of_birth and calculate_age_from_dob:
\* blank and malformed strings, and days, months and years around the limits
\* of the calendar, of the session date and of AGE_MAX, in both layouts
DateInputs ==
    { DateString(text, 0, 0, 0) : text \in {"", " ", "abc", "1980-01-23", "23/07/80"} }
    \cup { DateString("dmy", d, m, y) :
             d \in {0, 1, 2, 3, 29, 30, 31, 32}, m \in {0, 1, 2, 11, 12, 13},
             y \in {0, 1906, 1907, 2000, 2024, 2026, 2027} }
    \cup { DateString("d/m/y", d, m, y) :
             d \in {0, 1, 2, 3}, m \in {0, 1, 2, 11, 12, 13},
             y \in {0, 1906, 1907, 2000, 2024, 2026, 2027} }

ApplyValidateDateOfBirth ==
    /\ Called("-")
    /\ call.input.kind = "date"
    /\ call' = Applied("validate_date_of_birth", call.input,
                       validate_date_of_birth(call.input.value))
    /\ PageIdle

\* calculate_age_from_dob raises ValueError where strptime does
ApplyCalculateAgeFromDob ==
    /\ Called("-")
    /\ call.input.kind = "date"
    /\ call' = Applied("calculate_age_from_dob", call.input,
                       IF Parses(call.input.value)
                       THEN [raised |-> FALSE, age |-> calculate_age_from_dob(call.input.value)]
                       ELSE [raised |-> TRUE, age |-> 0])
    /\ PageIdle


\* readings of datetime.now(), to the second
ClockReadings ==
    [y : {2025, 2026}, mo : {1, 11}, d : {1, 11}, h : {1, 11}, mi : {1, 11}, s : {1, 11}]

\* decimal digits of a natural number, most significant first
RECURSIVE Decimal(_)
Decimal(n) == IF n < 10 THEN <<n>> ELSE Decimal(n \div 10) \o <<n % 10>>

\* the digits padded with zeros on the left up to a width, as %02d / :03d do
RECURSIVE ZeroPadded(_, _)
ZeroPadded(digits, width) ==
    IF Len(digits) >= width THEN digits ELSE ZeroPadded(<<0>> \o digits, width)

\* datetime.strftime("%Y%m%d%H%M%S") and datetime.strftime("%H%M%S")
strftime_YmdHMS(clock) ==
    ZeroPadded(Decimal(clock.y), 4) \o ZeroPadded(Decimal(clock.mo), 2)
    \o ZeroPadded(Decimal(clock.d), 2) \o ZeroPadded(Decimal(clock.h), 2)
    \o ZeroPadded(Decimal(clock.mi), 2) \o ZeroPadded(Decimal(clock.s), 2)

strftime_HMS(clock) ==
    ZeroPadded(Decimal(clock.h), 2) \o ZeroPadded(Decimal(clock.mi), 2)
    \o ZeroPadded(Decimal(clock.s), 2)

\* f"PAT-{timestamp}" with the fields of the timestamp written unpadded
generate_patient_id_unpadded(clock) ==
    [prefix |-> "PAT-",
     timestamp |-> Decimal(clock.y) \o Decimal(clock.mo) \o Decimal(clock.d)
                   \o Decimal(clock.h) \o Decimal(clock.mi) \o Decimal(clock.s)]

\* generate_patient_id() called when datetime.now() reads clock
generate_patient_id_at(clock) ==
    [prefix |-> "PAT-", timestamp |-> strftime_YmdHMS(clock)]

\* the optional counter of generate_lesion_id: None, or an integer
NoCounter == [given |-> FALSE, n |-> 0]
Counter(n) == [given |-> TRUE, n |-> n]

\* generate_lesion_id raised ValueError / returned f"LESION_{code}_{counter_str}"
IdRaised == [raised |-> TRUE]
LesionId(code, counter_str) ==
    [raised |-> FALSE, prefix |-> "LESION_", code |-> code, separator |-> "_",
     counter_str |-> counter_str]

\* generate_lesion_id without the check of the counter's range
generate_lesion_id_unchecked(api_location, counter, clock) ==
    IF get_location_code(api_location) = "" THEN IdRaised
    ELSE IF counter.given
         THEN LesionId(get_location_code(api_location), ZeroPadded(Decimal(counter.n), 3))
         ELSE LesionId(get_location_code(api_location),
                       SubSeq(strftime_HMS(clock), 4, 6))

\* generate_lesion_id(api_location, counter) called when datetime.now() reads clock
generate_lesion_id_at(api_location, counter, clock) ==
    IF get_location_code(api_location) = "" THEN IdRaised
    ELSE IF counter.given
         THEN IF ~(1 <= counter.n /\ counter.n <= 999) THEN IdRaised
              ELSE LesionId(get_location_code(api_location),
                            ZeroPadded(Decimal(counter.n), 3))
         ELSE LesionId(get_location_code(api_location),
                       SubSeq(strftime_HMS(clock), 4, 6))

\* locations given to generate_lesion_id: the seven of the configuration, one
\* of them capitalised, the empty string and a location that is not configured
LocationInputs == VALID_ANATOMICAL_LOCATIONS \cup {"Left Leg", "", "elbow"}

CounterInputs == {NoCounter} \cup { Counter(n) : n \in {0, 1, 9, 10, 99, 100, 999, 1000} }

LesionIdInputs ==
    [location : LocationInputs, counter : CounterInputs,
     clock : { c \in ClockReadings : c.y = 2026 /\ c.mo = 11 /\ c.d = 1 }]

\* two calls of generate_patient_id and the readings of the clock at each
PatientIdInputs == [first : ClockReadings, second : ClockReadings]

ApplyGenerateLesionId ==
    /\ Called("-")
    /\ call.input.kind = "lesion_id"
    /\ call' = Applied("generate_lesion_id", call.input,
                       generate_lesion_id_at(call.input.value.location,
                                             call.input.value.counter,
                                             call.input.value.clock))
    /\ PageIdle

ApplyGeneratePatientId ==
    /\ Called("-")
    /\ call.input.kind = "patient_ids"
    /\ call' = Applied("generate_patient_id", call.input,
                       [first |-> generate_patient_id_at(call.input.value.first),
                        second |-> generate_patient_id_at(call.input.value.second)])
    /\ PageIdle

\* the arguments drawn for the functions
FunctionInputs ==
    { Argument("size", v) : v \in SizeInputs }
    \cup { Argument("date", v) : v \in DateInputs }
    \cup { Argument("lesion_id", v) : v \in LesionIdInputs }
    \cup { Argument("patient_ids", v) : v \in PatientIdInputs }

FunctionInit ==
    /\ PageInit
    /\ call \in { Drawn(a) : a \in FunctionInputs }

FunctionNext ==
    \/ ApplyValidateCurrentLesionSize
    \/ ApplyValidateDateOfBirth
    \/ ApplyCalculateAgeFromDob
    \/ ApplyGenerateLesionId
    \/ ApplyGeneratePatientId

\* one function applied to one drawn argument
FunctionSpec == FunctionInit /\ [][FunctionNext]_vars

\* C21: validate_current_lesion_size passes for every size in (0, 200] and
\* fails for every size outside it: for 0, for every negative size and for
\* every size above 200.
C21_CurrentSizeWithinOpenClosedRange ==
    Called("validate_current_lesion_size")
    => (call.result.valid <=> (0 < call.input.value /\ call.input.value <= 200))


\* the empty and the whitespace-only string
Blank(date_string) == date_string.text \in {"", " "}

\* C22 as stated: for every string that is not written in the DD/MM/YYYY
\* pattern, the empty and the whitespace-only string included,
\* validate_date_of_birth fails and its message is the format-error message.
C22_NoMatchGivesFormatError ==
    (Called("validate_date_of_birth") /\ call.input.value.text # "dmy")
    => (~call.result.valid /\ call.result.error = "Invalid date format")

\* C22: for every string that strptime rejects for "%d/%m/%Y", a format that
\* takes the day and the month with one digit as well as with two,
\* validate_date_of_birth fails; its message is the format-error message,
\* except for the empty and the whitespace-only string, where it is
\* "Date of birth is required".
C22_RejectedByStrptimeFails ==
    (Called("validate_date_of_birth") /\ ~Parses(call.input.value))
    => /\ ~call.result.valid
       /\ Blank(call.input.value) => call.result.error = "Date of birth is required"
       /\ ~Blank(call.input.value) => call.result.error = "Invalid date format"

C22_Witness ==
    /\ Called("validate_date_of_birth")
    /\ call.input.value.text = " "
    /\ ~call.result.valid
    /\ call.result.error = "Date of birth is required"


\* the location is one of the configured API values
Recognised(api_location) == api_location \in VALID_ANATOMICAL_LOCATIONS

RECURSIVE Number(_, _, _)
Number(digits, i, j) ==
    IF i > j THEN 0 ELSE Number(digits, i, j - 1) * 10 + digits[j]

\* the identifier is PAT- followed by the 14 digits YYYYMMDDHHMMSS of the reading
IsPatientIdOf(id, clock) ==
    /\ id.prefix = "PAT-"
    /\ Len(id.timestamp) = 14
    /\ \A i \in 1..Len(id.timestamp) : id.timestamp[i] \in 0..9
    /\ Number(id.timestamp, 1, 4) = clock.y
    /\ Number(id.timestamp, 5, 6) = clock.mo
    /\ Number(id.timestamp, 7, 8) = clock.d
    /\ Number(id.timestamp, 9, 10) = clock.h
    /\ Number(id.timestamp, 11, 12) = clock.mi
    /\ Number(id.timestamp, 13, 14) = clock.s

\* C24: two identifiers of generate_patient_id are equal only if they were
\* generated in the same second; generated at different seconds they differ,
\* each being PAT- followed by the 14-digit timestamp of its generation.
C24_PatientIdsDifferAcrossSeconds ==
    Called("generate_patient_id")
    => /\ (call.result.first = call.result.second)
             => (call.input.value.first = call.input.value.second)
       /\ IsPatientIdOf(call.result.first, call.input.value.first)
       /\ IsPatientIdOf(call.result.second, call.input.value.second)

C24_Witness ==
    /\ Called("generate_patient_id")
    /\ call.input.value.first.mo = 1
    /\ call.input.value.first.d = 11
    /\ call.input.value.second = [call.input.value.first EXCEPT !.mo = 11, !.d = 1]
    /\ call.result.first # call.result.second


\* C29: for every date of birth validate_date_of_birth accepts,
\* calculate_age_from_dob at the same instant returns a whole number of years
\* from 0 to 120, so the age of a newly captured patient passes the age
\* check of the prediction client.
C29_AcceptedDobGivesAcceptedAge ==
    (Called("calculate_age_from_dob") /\ validate_date_of_birth(call.input.value).valid)
    => /\ ~call.result.raised
       /\ call.result.age \in 0..120
       /\ _validate_inputs(call.result.age, "female", "left leg", 5) = ""

C29_Witness ==
    /\ Called("calculate_age_from_dob")
    /\ call.input.value = DateString("dmy", 2, 11, 1906)
    /\ validate_date_of_birth(call.input.value).valid
    /\ call.result.age = 120


\* C25: the uploaded file is set back to the start of its buffer before every
\* use: each predict request and each explain request is sent with the read
\* position of the file at 0, although the preview or an earlier request
\* has read the same file before.
C25_FileSentFromItsStart ==
    \A i \in DOMAIN reqs :
        reqs[i].kind \in {"predict", "explain"} => reqs[i].position = 0

C25_Witness ==
    /\ last.action = "ToggleShap"
    /\ session_state.last_uploaded_file # Absent
    /\ \E i \in DOMAIN reqs : reqs[i].kind = "explain" /\ reqs[i].position = 0


\* the workflow holds a patient and a lesion that the backend has, neither
\* of them flagged new
HoldsPersisted(ss, backend) ==
    /\ ~ss.patient_is_new
    /\ ~ss.lesion_is_new
    /\ ss.patient_data # None
    /\ ss.lesion_data # None
    /\ ss.patient_data.patient_id \in PatientIds(backend)
    /\ ss.lesion_data.lesion_id \in LesionIds(backend)

\* C26: after an Analyze that succeeds, patient_is_new and lesion_is_new are
\* false and the workflow holds the backend identifiers of the patient and
\* of the lesion; they stay so while the patient and the lesion stay the
\* same, and an Analyze on them sends a predict request and no create request.
C26_AnalysedRecordsAreNotCreatedAgain ==
    [][ /\ (last'.action = "Analyze" /\ last'.outcome = "analysed")
            => HoldsPersisted(session_state', db')
        /\ (/\ HoldsPersisted(session_state, db)
            /\ session_state'.patient_data = session_state.patient_data
            /\ session_state'.lesion_data = session_state.lesion_data)
            => HoldsPersisted(session_state', db')
        /\ (HoldsPersisted(session_state, db) /\ last'.action = "Analyze")
            => /\ ~Sent(reqs', "create_patient")
               /\ ~Sent(reqs', "create_lesion")
               /\ Kinds(Sequence(reqs')) \in {<< >>, <<"predict">>}
               /\ last'.outcome = "analysed" => Kinds(Sequence(reqs')) = <<"predict">>
      ]_vars

C26_Witness ==
    /\ attempts = 2
    /\ last.action = "Analyze"
    /\ last.outcome = "analysed"
    /\ Kinds(Sequence(reqs)) = <<"predict">>
    /\ HoldsPersisted(session_state, db)
    /\ session_state.patient_data.patient_id # <<"PAT", 0>>
    /\ session_state.lesion_data.lesion_id \notin LesionIds(InitialDb)


\* what the results section and the explanation request read is there
ResultsPresent(ss) ==
    /\ ss.last_response # None
    /\ ss.last_input # Absent
    /\ ss.last_display_metadata # Absent
    /\ ss.last_uploaded_file # Absent

\* C27: in every reachable state with analysis_complete true, last_response,
\* last_input, last_display_metadata and last_uploaded_file are present, so
\* the results section and the explanation request read no missing value;
\* and analysis_complete becomes true only when a predict request has
\* returned with success.
C27_CompleteMeansResultsPresent ==
    /\ [](session_state.analysis_complete
            => /\ ResultsPresent(session_state)
               /\ \A i \in DOMAIN messages : messages[i][2] # "AttributeError")
    /\ [][ (~session_state.analysis_complete /\ session_state'.analysis_complete)
            => /\ last'.action = "Analyze"
               /\ last'.outcome = "analysed"
               /\ Sent(reqs', "predict")
               /\ session_state'.last_response # None
               /\ [patient_id |-> session_state'.patient_data.patient_id,
                   lesion_id |-> session_state'.lesion_data.lesion_id] \in db'.analyses ]_vars

C27_Witness ==
    /\ session_state.analysis_complete
    /\ session_state.show_shap
    /\ ResultsPresent(session_state)
    /\ Sent(reqs, "explain")
    /\ messages = << >>


----------------------------------------------------------------------------
(* Lesions and the patient that owns them *)

\* the backend holds the lesion under this patient
Owns(backend, patient_id, lesion_id) ==
    \E l \in backend.lesions : l.lesion_id = lesion_id /\ l.patient_id = patient_id

\* a lesion of the database is selected: lesion_is_new is off, as "Select"
\* and a successful analysis leave it
ExistingLesionSelected(ss) == LesionChosen(ss) /\ ~ss.lesion_is_new

\* C28: whenever an existing lesion is selected, a patient is selected too and
\* the backend holds that lesion under that patient; "Change Patient" leaves
\* no lesion selected; every create-lesion request carries the identifier the
\* session holds for its patient after the step, and every predict request
\* pairs a lesion with the patient that owns it.
C28_LesionBelongsToPatient ==
    /\ [](ExistingLesionSelected(session_state) =>
             /\ PatientChosen(session_state)
             /\ Owns(db, session_state.patient_data.patient_id,
                     session_state.lesion_data.lesion_id))
    /\ [][ /\ last'.action = "ChangePatient" => session_state'.lesion_data = None
           /\ last'.action = "SelectLesion" /\ last'.outcome = "ok" =>
                 /\ ExistingLesionSelected(session_state')
                 /\ \E l \in shown.lesions :
                       /\ l.lesion_id = session_state'.lesion_data.lesion_id
                       /\ l.patient_id = session_state'.patient_data.patient_id
           /\ \A i \in DOMAIN reqs' :
                 /\ reqs'[i].kind = "create_lesion" =>
                       /\ reqs'[i].patient_id # NoId
                       /\ reqs'[i].patient_id = session_state'.patient_data.patient_id
                 /\ reqs'[i].kind = "predict" =>
                       Owns(db', reqs'[i].patient_id, reqs'[i].lesion_id) ]_vars

\* an existing lesion of an existing patient was selected and analysed
C28_Witness ==
    /\ last.action = "Analyze" /\ last.outcome = "analysed"
    /\ Kinds(Sequence(reqs)) = <<"predict">>
    /\ ExistingLesionSelected(session_state)
    /\ Cardinality(db.patients) > 1
    /\ Owns(db, session_state.patient_data.patient_id, session_state.lesion_data.lesion_id)

====
